---- MODULE Spec2Model ----
(***************************************************************************)
(* A model of transferData.py: bulk copy of a tree of data files between   *)
(* two storage endpoints (file discovery, natural sort, credential gate,   *)
(* transfer planning and the bounded worker pool that runs the copies).    *)
(*                                                                         *)
(* Strings are sequences of one-character strings, so that str.replace,    *)
(* str.endswith, the `in` substring test and the sort key are computed as  *)
(* Python computes them.                                                   *)
(***************************************************************************)
EXTENDS Integers, Sequences, FiniteSets, TLC

\* ------------------------------------------------------------------ bounds
\* Largest number of files of the source tree in a whole run.
MaxFiles == 3
\* Largest --num-cores value tried.
MaxCores == 2
\* Largest retry budget tried for check_grid_proxy called on its own.
MaxRetry == 5
\* Largest number of files of the source tree when only the plan is built.
MaxPlanFiles == 2
\* Largest number of files of the destination tree the exclusion list names.
MaxExcluded == 1
\* Largest number of files of the source tree when the labels are looked at.
MaxLabelFiles == 3

\* ------------------------------------------------------- program constants
\* check_grid_proxy(verbose=False, retry=3)
DefaultRetry == 3
\* os.path.getsize(...) < 1000
MinSize == 1000

\* A Python value that may be None: None itself, or the value v.
None == [none |-> TRUE, val |-> <<>>]
Some(v) == [none |-> FALSE, val |-> v]

\* ------------------------------------------------------------ text helpers
Digits == {"0", "1", "2", "3", "4", "5", "6", "7", "8", "9"}

\* [0-9] of the regular expressions.
IsDigitChar(c) == c \in Digits

\* ARABIC-INDIC DIGIT THREE (U+0663), one character: a decimal digit that is
\* not an ASCII one.
U0663 == "U0663"

\* The characters str.isdigit() accepts.
IsDecimalChar(c) == c \in Digits \cup {U0663}

DigitVal(c) ==
  CASE c = "0" -> 0 [] c = "1" -> 1 [] c = "2" -> 2 [] c = "3" -> 3
    [] c = "4" -> 4 [] c = "5" -> 5 [] c = "6" -> 6 [] c = "7" -> 7
    [] c = "8" -> 8 [] c = "9" -> 9 [] c = U0663 -> 3

\* The code point of a character (the characters the inputs are drawn from).
Ord(c) ==
  CASE c = "." -> 46 [] c = "/" -> 47
    [] IsDigitChar(c) -> 48 + DigitVal(c)
    [] c = "A" -> 65 [] c = "B" -> 66 [] c = "F" -> 70 [] c = "R" -> 82
    [] c = "T" -> 84 [] c = "V" -> 86
    [] c = "_" -> 95
    [] c = "a" -> 97 [] c = "b" -> 98 [] c = "d" -> 100 [] c = "e" -> 101
    [] c = "f" -> 102 [] c = "i" -> 105 [] c = "l" -> 108 [] c = "n" -> 110
    [] c = "o" -> 111 [] c = "r" -> 114 [] c = "s" -> 115 [] c = "t" -> 116
    [] c = "u" -> 117
    [] c = "v" -> 118 [] c = "x" -> 120 [] c = "y" -> 121
    [] c = U0663 -> 1635

\* str.lower() on one character.
LowerChar(c) ==
  CASE c = "A" -> "a" [] c = "B" -> "b" [] c = "F" -> "f" [] c = "R" -> "r"
    [] c = "T" -> "t" [] c = "V" -> "v"
    [] OTHER -> c

Lower(s) == [i \in 1..Len(s) |-> LowerChar(s[i])]

\* s[i:] of Python for a 0-based i, i.e. the text from position i+1 on.
Drop(s, n) == SubSeq(s, n + 1, Len(s))

StartsWith(s, p) == Len(p) <= Len(s) /\ SubSeq(s, 1, Len(p)) = p

\* str.endswith
EndsWith(s, p) == Len(p) <= Len(s) /\ SubSeq(s, Len(s) - Len(p) + 1, Len(s)) = p

\* `sub in s` on strings.
Contains(s, sub) ==
  \E i \in 0..(Len(s) - Len(sub)) : SubSeq(s, i + 1, i + Len(sub)) = sub

\* str.replace(old, '') for a non-empty old: every non-overlapping occurrence
\* of old, found left to right, is removed.
RECURSIVE Remove(_, _)
Remove(s, old) ==
  IF Len(s) = 0 THEN <<>>
  ELSE IF StartsWith(s, old) THEN Remove(Drop(s, Len(old)), old)
  ELSE <<Head(s)>> \o Remove(Tail(s), old)

\* str.replace(old, ''); with old = '' nothing is removed.
Replace(s, old) == IF Len(old) = 0 THEN s ELSE Remove(s, old)

\* os.path.join(a, b) for a relative b.
PathJoin(a, b) ==
  IF Len(a) = 0 \/ a[Len(a)] = "/" THEN a \o b ELSE a \o <<"/">> \o b

\* ------------------------------------------------------------ natural_sort
\* re.split('([0-9]+)', key): the runs of key, text and digit runs in turn,
\* the first and the last always a (possibly empty) text run.
SplitDigits(key) ==
  LET step[i \in 0..Len(key)] ==
        IF i = 0 THEN [toks |-> <<>>, cur |-> <<>>, dig |-> FALSE]
        ELSE LET p == step[i - 1]
                 c == key[i]
             IN  IF IsDigitChar(c) = p.dig
                 THEN [p EXCEPT !.cur = Append(p.cur, c)]
                 ELSE [toks |-> Append(p.toks, p.cur), cur |-> <<c>>,
                       dig |-> IsDigitChar(c)]
      last == step[Len(key)]
  IN  IF last.dig THEN last.toks \o <<last.cur, <<>>>>
      ELSE Append(last.toks, last.cur)

\* int(text) for a run of decimal digits (ASCII or not).
RECURSIVE IntOf(_)
IntOf(text) ==
  IF Len(text) = 0 THEN 0
  ELSE 10 * IntOf(SubSeq(text, 1, Len(text) - 1)) + DigitVal(text[Len(text)])

\* text.isdigit()
IsDigit(text) == Len(text) > 0 /\ \A i \in 1..Len(text) : IsDecimalChar(text[i])

\* convert(text): int(text) if text.isdigit() else text.lower()
convert(text) ==
  IF IsDigit(text) THEN [int |-> TRUE, n |-> IntOf(text), s |-> <<>>]
  ELSE [int |-> FALSE, n |-> 0, s |-> Lower(text)]

\* alphanum_key(key)
alphanum_key(key) ==
  LET toks == SplitDigits(key) IN [i \in 1..Len(toks) |-> convert(toks[i])]

\* str < str: by code point, a proper prefix first.
RECURSIVE StrLess(_, _)
StrLess(a, b) ==
  IF Len(b) = 0 THEN FALSE
  ELSE IF Len(a) = 0 THEN TRUE
  ELSE IF a[1] # b[1] THEN Ord(a[1]) < Ord(b[1])
  ELSE StrLess(Tail(a), Tail(b))

\* list < list on two keys: "lt", "ge", or "TypeError" when the first
\* differing pair of tokens is an int and a str.
RECURSIVE KeyCmp(_, _)
KeyCmp(a, b) ==
  IF Len(b) = 0 THEN "ge"
  ELSE IF Len(a) = 0 THEN "lt"
  ELSE IF a[1] = b[1] THEN KeyCmp(Tail(a), Tail(b))
  ELSE IF a[1].int # b[1].int THEN "TypeError"
  ELSE IF a[1].int THEN (IF a[1].n < b[1].n THEN "lt" ELSE "ge")
  ELSE IF StrLess(a[1].s, b[1].s) THEN "lt" ELSE "ge"

\* One insertion of a stable sort: x goes behind every element that is not
\* greater than it.
RECURSIVE InsertSorted(_, _)
InsertSorted(sorted, x) ==
  IF Len(sorted) = 0 THEN <<x>>
  ELSE LET y == sorted[Len(sorted)]
       IN  IF KeyCmp(alphanum_key(x), alphanum_key(y)) = "lt"
           THEN Append(InsertSorted(SubSeq(sorted, 1, Len(sorted) - 1), x), y)
           ELSE Append(sorted, x)

\* Whether sorted(l, key=alphanum_key) raises TypeError: it does when a
\* comparison it makes does. Two keys that cannot be compared differ first
\* at a text run one of them turned into an int; no third key lies between
\* them, so the sort has to compare the two, whatever order it works in.
natural_sort_raises(l) ==
  \E i, j \in 1..Len(l) :
    i # j /\ KeyCmp(alphanum_key(l[i]), alphanum_key(l[j])) = "TypeError"

\* sorted(l, key=alphanum_key) when it returns: a stable sort.
RECURSIVE natural_sort(_)
natural_sort(l) ==
  IF Len(l) = 0 THEN <<>>
  ELSE InsertSorted(natural_sort(SubSeq(l, 1, Len(l) - 1)), l[Len(l)])

\* ------------------------------------------------------------------- state
VARIABLES
  args,          \* the parsed command line (argparse namespace), read-only
  tree,          \* the source tree in the order os.walk enumerates its files
  exfile,        \* the 'files' list of the file --exclude names
  pc,            \* where main() is
  gate,          \* the frame of check_grid_proxy and its external calls
  written,       \* what make_filelist dumped to its output file, or None
  filelist,      \* main: filelist
  exclude,       \* main: exclude
  params,        \* main: params
  transfer_info, \* main: transfer_info
  fi,            \* main: position of the planning loop in filelist
  pool,          \* the ProcessPoolExecutor: "none", "open" or "shutdown"
  fut,           \* per call: its state in the pool, its callback, xrdcp's status
  outcome,       \* per submitted call: what copy returned
  copies,        \* per planned task: how many times copy was invoked on it
  progress,      \* the tqdm bar: total, n, closed
  results,       \* main: results
  ci,            \* main: position of the collecting loop in futures
  reported       \* the failure list of the final log line, or None

vars == <<args, tree, exfile, pc, gate, written, filelist, exclude, params,
          transfer_info, fi, pool, fut, outcome, copies, progress, results,
          ci, reported>>

inputVars == <<args, tree, exfile>>
planVars == <<filelist, exclude, params, transfer_info, fi>>
execVars == <<pool, fut, outcome, copies, progress, results, ci, reported>>

\* ----------------------------------------------------------------- literals
DOT_ROOT == <<".", "r", "o", "o", "t">>
FAILED == <<"f", "a", "i", "l", "e", "d">>
TEV == <<"T", "e", "V">>
TUNE == <<"T", "u", "n", "e">>
RUN20 == <<"R", "u", "n", "2", "0">>
UpperCase == {"A", "B", "C", "D", "E", "F", "G", "H", "I", "J", "K", "L", "M",
              "N", "O", "P", "Q", "R", "S", "T", "U", "V", "W", "X", "Y", "Z"}

\* ------------------------------------------------------- check_grid_proxy
\* The frame of check_grid_proxy before it is called / after it is popped.
NoGate == [at |-> "idle", retry |-> 0, verbose |-> FALSE, retry_count |-> 0,
           returncode |-> -1, checks |-> 0, inits |-> 0, logs |-> 0]

\* check_grid_proxy(verbose, retry) is entered.
GateFrame(verbose, retry) ==
  [NoGate EXCEPT !.at = "loop", !.retry = retry, !.verbose = verbose]

\* GateIterate with `retry_count >= retry` for `retry_count > retry`.
GateIterate_OffByOne ==
  /\ pc = "gate" /\ gate.at = "loop"
  /\ gate' = [gate EXCEPT !.retry_count = @ + 1,
                          !.at = IF gate.retry_count + 1 >= gate.retry
                                 THEN "raised" ELSE "check"]
  /\ UNCHANGED <<inputVars, pc, written, planVars, execVars>>

\* Top of the while loop: count the iteration, give up past the budget.
GateIterate ==
  /\ pc = "gate" /\ gate.at = "loop"
  /\ gate' = [gate EXCEPT !.retry_count = @ + 1,
                          !.at = IF gate.retry_count + 1 > gate.retry
                                 THEN "raised" ELSE "check"]
  /\ UNCHANGED <<inputVars, pc, written, planVars, execVars>>

\* voms-proxy-info -exists: the external check answers 0 or not.
GateCheck ==
  /\ pc = "gate" /\ gate.at = "check"
  /\ \E rc \in {0, 1} :
       gate' = [gate EXCEPT !.returncode = rc,
                            !.checks = @ + 1,
                            !.logs = IF gate.verbose THEN @ + 1 ELSE @,
                            !.at = IF rc = 0 THEN "returned" ELSE "init"]
  /\ UNCHANGED <<inputVars, pc, written, planVars, execVars>>

\* voms-proxy-init ...: its outcome is not looked at; back to the loop top.
GateInit ==
  /\ pc = "gate" /\ gate.at = "init"
  /\ gate' = [gate EXCEPT !.inits = @ + 1, !.at = "loop"]
  /\ UNCHANGED <<inputVars, pc, written, planVars, execVars>>

\* ----------------------------------------------------------- make_filelist
\* The directory os.walk reports for a file: inputdir joined with the
\* directories on the way down.
RECURSIVE DirPath(_, _)
DirPath(inputdir, dirs) ==
  IF Len(dirs) = 0 THEN inputdir
  ELSE PathJoin(DirPath(inputdir, SubSeq(dirs, 1, Len(dirs) - 1)),
                dirs[Len(dirs)])

\* The loops of make_filelist: the files kept, in walk order.
RECURSIVE WalkKept(_, _)
WalkKept(inputdir, walk) ==
  IF Len(walk) = 0 THEN <<>>
  ELSE LET e == Head(walk)
           dp == DirPath(inputdir, e.dirs)
           rest == WalkKept(inputdir, Tail(walk))
       IN  IF Contains(dp, FAILED) THEN rest
           ELSE IF ~EndsWith(e.name, DOT_ROOT) THEN rest
           ELSE IF e.size < MinSize THEN rest
           ELSE <<PathJoin(dp, e.name)>> \o rest

\* Whether make_filelist ends in the TypeError of natural_sort.
make_filelist_raises(inputdir, walk) ==
  natural_sort_raises(WalkKept(inputdir, walk))

\* The list make_filelist returns (and dumps when output is given).
make_filelist(inputdir, walk) == natural_sort(WalkKept(inputdir, walk))

\* ------------------------------------------------------------------- main
\* MakeFilelistOnly without the `return`: main goes on to check_grid_proxy().
MakeFilelistOnly_FallsThrough ==
  /\ pc = "start" /\ args.make_filelist
  /\ IF make_filelist_raises(args.inputdir, tree)
     THEN pc' = "fatal" /\ UNCHANGED <<written, gate>>
     ELSE /\ written' = Some(make_filelist(args.inputdir, tree))
          /\ gate' = GateFrame(FALSE, DefaultRetry)
          /\ pc' = "gate"
  /\ UNCHANGED <<inputVars, planVars, execVars>>

\* if args.make_filelist: make_filelist(args.inputdir, args.make_filelist); return
\* (an exception of the sort is caught nowhere: nothing is written, the run ends)
MakeFilelistOnly ==
  /\ pc = "start" /\ args.make_filelist
  /\ IF make_filelist_raises(args.inputdir, tree)
     THEN pc' = "fatal" /\ UNCHANGED written
     ELSE /\ written' = Some(make_filelist(args.inputdir, tree))
          /\ pc' = "done"
  /\ UNCHANGED <<inputVars, gate, planVars, execVars>>

\* check_grid_proxy() is called with its defaults.
CallGate ==
  /\ pc = "start" /\ ~args.make_filelist
  /\ gate' = GateFrame(FALSE, DefaultRetry)
  /\ pc' = "gate"
  /\ UNCHANGED <<inputVars, written, planVars, execVars>>

\* check_grid_proxy returned: main goes on to discovery.
GateReturned ==
  /\ pc = "gate" /\ gate.at = "returned"
  /\ gate' = [NoGate EXCEPT !.at = "passed"]
  /\ pc' = "discover"
  /\ UNCHANGED <<inputVars, written, planVars, execVars>>

\* GateRaised with the RuntimeError caught and the run going on.
GateRaised_Swallowed ==
  /\ pc = "gate" /\ gate.at = "raised"
  /\ gate' = [NoGate EXCEPT !.at = "failed"]
  /\ pc' = "discover"
  /\ UNCHANGED <<inputVars, written, planVars, execVars>>

\* check_grid_proxy raised RuntimeError: nothing catches it, the run ends.
GateRaised ==
  /\ pc = "gate" /\ gate.at = "raised"
  /\ gate' = [NoGate EXCEPT !.at = "failed"]
  /\ pc' = "fatal"
  /\ UNCHANGED <<inputVars, written, planVars, execVars>>

\* filelist = make_filelist(args.inputdir)
\* (an exception of the sort is caught nowhere: the run ends)
Discover ==
  /\ pc = "discover"
  /\ IF make_filelist_raises(args.inputdir, tree)
     THEN pc' = "fatal" /\ UNCHANGED filelist
     ELSE /\ filelist' = make_filelist(args.inputdir, tree)
          /\ pc' = "exclude"
  /\ UNCHANGED <<inputVars, gate, written, exclude, params, transfer_info, fi,
                 execVars>>

\* set(f.replace(args.outputdir, '') for f in load_filelist(args.exclude))
ExcludeSet(files, outputdir) ==
  {Replace(files[i], outputdir) : i \in 1..Len(files)}

\* exclude = set(); if args.exclude: exclude = ...; params = []; transfer_info = {}
LoadExclude ==
  /\ pc = "exclude"
  /\ exclude' = IF args.exclude THEN ExcludeSet(exfile, args.outputdir) ELSE {}
  /\ params' = <<>>
  /\ transfer_info' = <<>>
  /\ fi' = 1
  /\ pc' = "plan"
  /\ UNCHANGED <<inputVars, gate, written, filelist, execVars>>

\* ------------------------------------------------------ the planning loop
\* f.split('/')
SplitPath(f) ==
  LET step[i \in 0..Len(f)] ==
        IF i = 0 THEN [segs |-> <<>>, cur |-> <<>>]
        ELSE LET p == step[i - 1]
             IN  IF f[i] = "/" THEN [segs |-> Append(p.segs, p.cur), cur |-> <<>>]
                 ELSE [p EXCEPT !.cur = Append(p.cur, f[i])]
  IN  Append(step[Len(f)].segs, step[Len(f)].cur)

\* Whether Run20[0-9]+[A-Z] matches n at the 0-based position i, and how
\* many digits the greedy [0-9]+ takes there.
DigitRun(n, from) ==
  LET ends == {k \in from..Len(n) : \A j \in from..k : IsDigitChar(n[j])}
  IN  Cardinality(ends)

RunMatchAt(n, i) ==
  /\ i + Len(RUN20) <= Len(n)
  /\ SubSeq(n, i + 1, i + Len(RUN20)) = RUN20
  /\ LET d == DigitRun(n, i + Len(RUN20) + 1)
     IN  /\ d >= 1
         /\ i + Len(RUN20) + d + 1 <= Len(n)
         /\ n[i + Len(RUN20) + d + 1] \in UpperCase

\* re.search(r'(Run20[0-9]+[A-Z])', n): groups()[0] of the leftmost match,
\* or the empty text when nothing matches.
RunSearch(n) ==
  LET at == {i \in 0..Len(n) : RunMatchAt(n, i)}
  IN  IF at = {} THEN <<>>
      ELSE LET i == CHOOSE k \in at : \A m \in at : k <= m
               d == DigitRun(n, i + Len(RUN20) + 1)
           IN  SubSeq(n, i + 1, i + Len(RUN20) + d + 1)

\* Whether the scan of dirnames stops at segment n.
SegmentMatches(n) ==
  Contains(n, TEV) \/ Contains(n, TUNE) \/ RunSearch(n) # <<>>

\* Dataset with the scan keeping the last matching segment, not the first.
Dataset_LastMatch(f) ==
  LET dirnames == SplitPath(f)
      hits == {i \in 1..Len(dirnames) : SegmentMatches(dirnames[i])}
  IN  IF hits = {} THEN <<>>
      ELSE LET i == CHOOSE k \in hits : \A m \in hits : k >= m
               n == dirnames[i]
           IN  IF Contains(n, TEV) \/ Contains(n, TUNE) THEN n
               ELSE IF i > 1 THEN dirnames[i - 1] \o <<"/">> \o RunSearch(n)
               ELSE n

\* The `dataset` label the loop over enumerate(dirnames) leaves.
Dataset(f) ==
  LET dirnames == SplitPath(f)
      hits == {i \in 1..Len(dirnames) : SegmentMatches(dirnames[i])}
  IN  IF hits = {} THEN <<>>
      ELSE LET i == CHOOSE k \in hits : \A m \in hits : k <= m
               n == dirnames[i]
           IN  IF Contains(n, TEV) \/ Contains(n, TUNE) THEN n
               ELSE IF i > 1 THEN dirnames[i - 1] \o <<"/">> \o RunSearch(n)
               ELSE n

\* Tally with `transfer_info[dataset] = 1` in both branches.
Tally_Reset(info, dataset) ==
  [d \in DOMAIN info \cup {dataset} |-> IF d = dataset THEN 1 ELSE info[d]]

\* try: transfer_info[dataset] += 1 / except KeyError: transfer_info[dataset] = 1
Tally(info, dataset) ==
  [d \in DOMAIN info \cup {dataset} |->
     IF d = dataset THEN (IF d \in DOMAIN info THEN info[d] + 1 ELSE 1)
     ELSE info[d]]

\* base_path = f.replace(args.inputdir, '')
BasePath(f) == Replace(f, args.inputdir)

\* (src, dst) of the task planned for f
Task(f) ==
  [src |-> args.src_server \o f,
   dst |-> args.dst_server \o args.outputdir \o BasePath(f)]

\* One iteration of `for f in filelist`.
PlanStep ==
  /\ pc = "plan" /\ fi <= Len(filelist)
  /\ LET f == filelist[fi]
     IN  IF BasePath(f) \in exclude
         THEN UNCHANGED <<params, transfer_info>>
         ELSE /\ params' = Append(params, Task(f))
              /\ transfer_info' = Tally(transfer_info, Dataset(f))
  /\ fi' = fi + 1
  /\ UNCHANGED <<inputVars, pc, gate, written, filelist, exclude, execVars>>

\* PlanReport without the `if args.dryrun: return`.
PlanReport_IgnoresDryrun ==
  /\ pc = "plan" /\ fi > Len(filelist)
  /\ pc' = "execute"
  /\ UNCHANGED <<inputVars, gate, written, planVars, execVars>>

\* The loop is over: the plan is logged; a dry run returns here.
PlanReport ==
  /\ pc = "plan" /\ fi > Len(filelist)
  /\ pc' = IF args.dryrun THEN "done" ELSE "execute"
  /\ UNCHANGED <<inputVars, gate, written, planVars, execVars>>

\* ------------------------------------------------------------ the executor
NTasks == Len(params)

Running == {i \in DOMAIN fut : fut[i].st = "running"}

\* The pool's queue-management thread is between Future.set_result and the
\* call of that future's done callbacks.
ManagerBusy == \E i \in DOMAIN fut : fut[i].st = "finished" /\ fut[i].cb = "added"

\* progress.update(): one more unit, unless the bar is closed already.
Update(bar) == IF bar.closed THEN bar ELSE [bar EXCEPT !.n = @ + 1]

\* results = []; with ProcessPoolExecutor(max_workers=args.num_cores) as pool:
\* with tqdm(total=len(params)) as progress: futures = []
PoolCreate ==
  /\ pc = "execute"
  /\ pool' = "open"
  /\ fut' = [i \in 1..NTasks |-> [st |-> "new", cb |-> "none", rc |-> -1]]
  /\ outcome' = [i \in 1..NTasks |-> None]
  /\ copies' = [i \in 1..NTasks |-> 0]
  /\ progress' = [total |-> NTasks, n |-> 0, closed |-> FALSE]
  /\ results' = <<>>
  /\ ci' = 1
  /\ pc' = IF NTasks = 0 THEN "collect" ELSE "submit"
  /\ UNCHANGED <<inputVars, gate, written, planVars, reported>>

\* The task the submit loop is at.
NextNew == CHOOSE i \in DOMAIN fut : fut[i].st = "new" /\ \A j \in 1..(i - 1) : fut[j].st # "new"

\* future = pool.submit(copy, src, dst)
Submit ==
  /\ pc = "submit"
  /\ fut' = [fut EXCEPT ![NextNew].st = "pending"]
  /\ pc' = "addcb"
  /\ UNCHANGED <<inputVars, gate, written, planVars, pool, outcome, copies,
                 progress, results, ci, reported>>

\* The future submitted last.
LastSubmitted == CHOOSE i \in DOMAIN fut : fut[i].st # "new" /\ \A j \in (i + 1)..NTasks : fut[j].st = "new"

\* future.add_done_callback(lambda p: progress.update()); futures.append(future)
\* A future that is finished already has the callback called on the spot.
AddCallback ==
  /\ pc = "addcb"
  /\ LET k == LastSubmitted
     IN  /\ IF fut[k].st = "finished"
            THEN /\ fut' = [fut EXCEPT ![k].cb = "called"]
                 /\ progress' = Update(progress)
            ELSE /\ fut' = [fut EXCEPT ![k].cb = "added"]
                 /\ UNCHANGED progress
         /\ pc' = IF k < NTasks THEN "submit" ELSE "collect"
  /\ UNCHANGED <<inputVars, gate, written, planVars, pool, outcome, copies,
                 results, ci, reported>>

\* MayStart with no limit on the worker processes.
MayStart_Unbounded(i) ==
  /\ fut[i].st = "pending"
  /\ \A j \in 1..(i - 1) : fut[j].st # "pending"

\* MayStart with one worker process fewer than max_workers.
MayStart_OneFewer(i) ==
  /\ fut[i].st = "pending"
  /\ \A j \in 1..(i - 1) : fut[j].st # "pending"
  /\ Cardinality(Running) < args.num_cores - 1

\* Whether a worker process may take call i: calls leave the queue in
\* submission order and the pool has max_workers processes.
MayStart(i) ==
  /\ fut[i].st = "pending"
  /\ \A j \in 1..(i - 1) : fut[j].st # "pending"
  /\ Cardinality(Running) < args.num_cores

\* A worker process takes the next call and enters copy(src, dst).
WorkerStart ==
  /\ pool = "open"
  /\ \E i \in DOMAIN fut :
       /\ MayStart(i)
       /\ fut' = [fut EXCEPT ![i].st = "running"]
       /\ copies' = [copies EXCEPT ![i] = @ + 1]
  /\ UNCHANGED <<inputVars, pc, gate, written, planVars, pool, outcome,
                 progress, results, ci, reported>>

\* copy without its `return src`.
copy_NoReturn(src, dst, returncode) == None

\* What copy(src, dst) returns for xrdcp's exit status.
copy(src, dst, returncode) == IF returncode # 0 THEN Some(src) ELSE None

\* WorkerFinish with a failed call put back on the queue.
WorkerFinish_Retry ==
  /\ pool = "open"
  /\ \E i \in Running, rc \in {0, 1} :
       /\ outcome' = [outcome EXCEPT ![i] = copy(params[i].src, params[i].dst, rc)]
       /\ fut' = [fut EXCEPT ![i].st = IF rc # 0 THEN "pending" ELSE "returned",
                             ![i].rc = rc]
  /\ UNCHANGED <<inputVars, pc, gate, written, planVars, pool, copies,
                 progress, results, ci, reported>>

\* xrdcp ends with some exit status and copy returns in the worker.
WorkerFinish ==
  /\ pool = "open"
  /\ \E i \in Running, rc \in {0, 1} :
       /\ outcome' = [outcome EXCEPT ![i] = copy(params[i].src, params[i].dst, rc)]
       /\ fut' = [fut EXCEPT ![i].st = "returned", ![i].rc = rc]
  /\ UNCHANGED <<inputVars, pc, gate, written, planVars, pool, copies,
                 progress, results, ci, reported>>

\* The queue-management thread takes a result: Future.set_result makes the
\* future finished and wakes whoever waits in result(); the callbacks are
\* called after that, outside the future's lock (InvokeCallback), so main
\* may run in between.
SetResult ==
  /\ pool = "open" /\ ~ManagerBusy
  /\ \E i \in DOMAIN fut :
       /\ fut[i].st = "returned"
       /\ fut' = [fut EXCEPT ![i].st = "finished"]
  /\ UNCHANGED <<inputVars, pc, gate, written, planVars, pool, outcome, copies,
                 progress, results, ci, reported>>

\* ... and then calls the callbacks added to it: progress.update().
InvokeCallback ==
  /\ pool = "open"
  /\ \E i \in DOMAIN fut :
       /\ fut[i].st = "finished" /\ fut[i].cb = "added"
       /\ fut' = [fut EXCEPT ![i].cb = "called"]
  /\ progress' = Update(progress)
  /\ UNCHANGED <<inputVars, pc, gate, written, planVars, pool, outcome, copies,
                 results, ci, reported>>

\* Whether future.result() returns for future i.
ResultReady(i) == fut[i].st = "finished"

\* Collect with results.insert(0, result) for results.append(result).
Collect_Prepend ==
  /\ pc = "collect" /\ ci <= NTasks
  /\ ResultReady(ci)
  /\ results' = IF outcome[ci] # None THEN <<outcome[ci].val>> \o results ELSE results
  /\ ci' = ci + 1
  /\ UNCHANGED <<inputVars, pc, gate, written, planVars, pool, fut, outcome,
                 copies, progress, reported>>

\* result = future.result(); if result is not None: results.append(result)
Collect ==
  /\ pc = "collect" /\ ci <= NTasks
  /\ ResultReady(ci)
  /\ results' = IF outcome[ci] # None THEN Append(results, outcome[ci].val) ELSE results
  /\ ci' = ci + 1
  /\ UNCHANGED <<inputVars, pc, gate, written, planVars, pool, fut, outcome,
                 copies, progress, reported>>

\* The `with tqdm(...)` block is left: progress.close().
CloseProgress ==
  /\ pc = "collect" /\ ci > NTasks
  /\ progress' = [progress EXCEPT !.closed = TRUE]
  /\ pc' = "shutdown"
  /\ UNCHANGED <<inputVars, gate, written, planVars, pool, fut, outcome,
                 copies, results, ci, reported>>

\* Whether pool.shutdown(wait=True) returns: the workers and the
\* queue-management thread have ended.
PoolIdle ==
  \A i \in DOMAIN fut : fut[i].st = "finished" /\ fut[i].cb = "called"

\* The `with ProcessPoolExecutor(...)` block is left: shutdown(wait=True).
PoolShutdown ==
  /\ pc = "shutdown"
  /\ PoolIdle
  /\ pool' = "shutdown"
  /\ pc' = "report"
  /\ UNCHANGED <<inputVars, gate, written, planVars, fut, outcome, copies,
                 progress, results, ci, reported>>

\* logger.info(f'{len(results)} failed: ...')
Report ==
  /\ pc = "report"
  /\ reported' = Some(results)
  /\ pc' = "done"
  /\ UNCHANGED <<inputVars, gate, written, planVars, pool, fut, outcome,
                 copies, progress, results, ci>>

\* ------------------------------------------------------------------ inputs
\* The files of s at the positions in S, in the order of s.
RECURSIVE Pick(_, _)
Pick(s, S) ==
  IF Len(s) = 0 THEN <<>>
  ELSE Pick(SubSeq(s, 1, Len(s) - 1), S)
       \o (IF Len(s) \in S THEN <<s[Len(s)]>> ELSE <<>>)

File(dirs, name, size) == [dirs |-> dirs, name |-> name, size |-> size]

\* Data files a source tree of a whole run may hold, in walk order.
RunFiles ==
  << File(<<>>, <<"f", "1", "0">> \o DOT_ROOT, 5000),
     File(<<>>, <<"f", "2">> \o DOT_ROOT, 5000),
     File(<< <<"d">> >>, <<"f", "1">> \o DOT_ROOT, 1000),
     File(<< <<"d">> >>, <<"F", "2">> \o DOT_ROOT, 5000),
     File(<< <<"d">> >>, <<"f", "0", "1">> \o DOT_ROOT, 2000) >>

\* Files every such tree holds and discovery drops: an undersized one, one
\* that is no .root file, one below a directory named failed.
OtherFiles ==
  << File(<<>>, <<"f", "3">> \o DOT_ROOT, 999),
     File(<<>>, <<"f", "4", ".", "t", "x", "t">>, 5000),
     File(<<FAILED>>, <<"f", "5">> \o DOT_ROOT, 5000) >>

RunTrees ==
  LET n == IF MaxFiles < Len(RunFiles) THEN MaxFiles ELSE Len(RunFiles)
  IN  {SubSeq(OtherFiles, 1, 2) \o Pick(SubSeq(RunFiles, 1, n), S)
         \o SubSeq(OtherFiles, 3, 3) : S \in SUBSET (1..n)}

SRC_SERVER == <<"s", ":">>
DST_SERVER == <<"d", ":">>

Args(inputdir, outputdir, excl, mk, cores, dry) ==
  [inputdir |-> inputdir, outputdir |-> outputdir,
   src_server |-> SRC_SERVER, dst_server |-> DST_SERVER,
   exclude |-> excl, make_filelist |-> mk, num_cores |-> cores, dryrun |-> dry]

\* The names main() has not bound yet and the files it has not written.
Unbound ==
  /\ written = None
  /\ filelist = <<>>
  /\ exclude = {}
  /\ params = <<>>
  /\ transfer_info = <<>>
  /\ fi = 1
  /\ pool = "none"
  /\ fut = <<>>
  /\ outcome = <<>>
  /\ copies = <<>>
  /\ progress = [total |-> 0, n |-> 0, closed |-> FALSE]
  /\ results = <<>>
  /\ ci = 1
  /\ reported = None

\* Everything but the inputs, as it is when main() starts.
Fresh ==
  /\ pc = "start"
  /\ gate = NoGate
  /\ Unbound

\* A whole run of main(): every mode, with and without an exclusion list.
Init ==
  /\ \E excl \in BOOLEAN, mk \in BOOLEAN, dry \in BOOLEAN, cores \in 1..MaxCores :
       /\ args = Args(<<"/", "i">>, <<"/", "o">>, excl, mk, cores, dry)
       /\ exfile = IF excl
                   THEN << <<"/", "o", "/", "f", "2">> \o DOT_ROOT >>
                   ELSE <<>>
  /\ tree \in RunTrees
  /\ Fresh

Next ==
  \/ MakeFilelistOnly
  \/ CallGate
  \/ GateIterate
  \/ GateCheck
  \/ GateInit
  \/ GateReturned
  \/ GateRaised
  \/ Discover
  \/ LoadExclude
  \/ PlanStep
  \/ PlanReport
  \/ PoolCreate
  \/ Submit
  \/ AddCallback
  \/ WorkerStart
  \/ WorkerFinish
  \/ SetResult
  \/ InvokeCallback
  \/ Collect
  \/ CloseProgress
  \/ PoolShutdown
  \/ Report

Spec == Init /\ [][Next]_vars

\* Once the pool is there, the main thread, the worker processes and the
\* queue-management thread each keep taking their steps, and every xrdcp
\* ends.
ExecutorMainStep ==
  \/ PoolCreate \/ Submit \/ AddCallback \/ Collect \/ CloseProgress
  \/ PoolShutdown \/ Report

FairSpec ==
  /\ Spec
  /\ WF_vars(ExecutorMainStep)
  /\ WF_vars(WorkerStart)
  /\ WF_vars(WorkerFinish)
  /\ WF_vars(SetResult)
  /\ WF_vars(InvokeCallback)

\* ------------------------------------------- check_grid_proxy on its own
InitGate ==
  /\ args = Args(<<"/", "i">>, <<"/", "o">>, FALSE, FALSE, 1, FALSE)
  /\ exfile = <<>>
  /\ tree = <<>>
  /\ Unbound
  /\ pc = "gate"
  /\ \E verbose \in BOOLEAN, retry \in 0..MaxRetry :
       gate = GateFrame(verbose, retry)

NextGate ==
  \/ GateIterate
  \/ GateCheck
  \/ GateInit

SpecGate == InitGate /\ [][NextGate]_vars

\* ------------------------------------- discovery and planning on their own
PlanRoots == {<<"/", "a">>, <<"a">>, <<"/", "o">>}

\* Data files a source or destination tree may hold, in walk order.
PlanFiles ==
  << File(<<>>, <<"a">> \o DOT_ROOT, 5000),
     File(<<>>, <<"o">> \o DOT_ROOT, 5000),
     File(<< <<"a">> >>, <<"a">> \o DOT_ROOT, 5000),
     File(<< <<"a">> >>, <<"o">> \o DOT_ROOT, 5000),
     File(<< <<"o">> >>, <<"a">> \o DOT_ROOT, 5000),
     File(<< <<"o">> >>, <<"o">> \o DOT_ROOT, 5000) >>

PlanTrees(max) ==
  {Pick(PlanFiles, S) : S \in {T \in SUBSET (1..Len(PlanFiles)) : Cardinality(T) <= max}}

\* After the credential gate: a dry run over a source tree, the exclusion
\* list being the file list made of a destination tree.
InitPlan ==
  /\ \E inputdir \in PlanRoots, outputdir \in PlanRoots, excl \in BOOLEAN,
        dest \in PlanTrees(MaxExcluded) :
       /\ args = Args(inputdir, outputdir, excl, FALSE, 1, TRUE)
       /\ exfile = IF excl THEN make_filelist(outputdir, dest) ELSE <<>>
  /\ tree \in PlanTrees(MaxPlanFiles)
  /\ pc = "discover"
  /\ gate = [NoGate EXCEPT !.at = "passed"]
  /\ Unbound

NextPlan ==
  \/ Discover
  \/ LoadExclude
  \/ PlanStep
  \/ PlanReport

SpecPlan == InitPlan /\ [][NextPlan]_vars

\* ------------------------------------------ planning with dataset labels
RUN201A == <<"R", "u", "n", "2", "0", "1", "A">>

LabelRoots ==
  { <<"/", "i">>, TUNE, <<"R", "u", "n", "2", "0", "1", "B", "y">> }

\* Data files below dataset directories, in walk order.
LabelFiles ==
  << File(<<>>, <<"a">> \o DOT_ROOT, 5000),
     File(<< <<"a">> \o TEV >>, <<"a">> \o DOT_ROOT, 5000),
     File(<< <<"b">> >>, <<"a">> \o TEV \o DOT_ROOT, 5000),
     File(<< <<"b">>, RUN201A >>, <<"a">> \o DOT_ROOT, 5000),
     File(<< <<"b">>, RUN201A >>, <<"b">> \o DOT_ROOT, 5000),
     File(<< RUN201A \o <<"b">> >>, <<"a">> \o DOT_ROOT, 5000),
     File(<< RUN201A, TUNE >>, <<"a">> \o DOT_ROOT, 5000) >>

LabelTrees(max) ==
  {Pick(LabelFiles, S) : S \in {T \in SUBSET (1..Len(LabelFiles)) : Cardinality(T) <= max}}

\* After the credential gate: a dry run over a tree of dataset directories.
InitLabel ==
  /\ \E inputdir \in LabelRoots, excl \in BOOLEAN, dest \in LabelTrees(MaxExcluded) :
       /\ args = Args(inputdir, <<"/", "o">>, excl, FALSE, 1, TRUE)
       /\ exfile = IF excl THEN make_filelist(<<"/", "o">>, dest) ELSE <<>>
  /\ tree \in LabelTrees(MaxLabelFiles)
  /\ pc = "discover"
  /\ gate = [NoGate EXCEPT !.at = "passed"]
  /\ Unbound

SpecLabel == InitLabel /\ [][NextPlan]_vars

\* ------------------------------------------------ discovery on its own
\* Largest number of files of the source tree when the walk order varies.
MaxWalkFiles == 3

\* Files of a source tree whose manifest depends on how they are treated:
\* names with equal sort keys, an undersized file, a file that is no data
\* file, directories named failed or named with failed in the name, and a
\* name with a non-ASCII digit.
WalkFiles ==
  { File(<<>>, <<"f", "2">> \o DOT_ROOT, 5000),
    File(<<>>, <<"F", "2">> \o DOT_ROOT, 5000),
    File(<<>>, <<"f", "0", "2">> \o DOT_ROOT, 1000),
    File(<<>>, <<"f", "1">> \o DOT_ROOT, 999),
    File(<<>>, <<"f", "5", ".", "t", "x", "t">>, 5000),
    File(<<>>, <<"f", "2", U0663, "2">> \o DOT_ROOT, 5000),
    File(<< FAILED >>, <<"f", "3">> \o DOT_ROOT, 5000),
    File(<< FAILED, <<"d">> >>, <<"f", "6">> \o DOT_ROOT, 5000),
    File(<< <<"x">> \o FAILED >>, <<"f", "4">> \o DOT_ROOT, 5000) }

\* os.walk, top down: the files of one directory come together, and a
\* directory's files come before those of the directories below it; within
\* these limits the order is the file system's.
IsWalkOrder(s) ==
  /\ \A i, j \in 1..Len(s) : i # j => s[i] # s[j]
  /\ \A i, j, k \in 1..Len(s) :
       (i < j /\ j < k /\ s[i].dirs = s[k].dirs) => s[j].dirs = s[i].dirs
  /\ \A i, j \in 1..Len(s) :
       (i < j) => ~(Len(s[j].dirs) < Len(s[i].dirs) /\ StartsWith(s[i].dirs, s[j].dirs))

WalkOrders(files, n) == {s \in [1..n -> files] : IsWalkOrder(s)}

\* A run up to the manifest: --make-filelist, or a transfer run past the gate.
InitWalk ==
  /\ \E mk \in BOOLEAN :
       /\ args = Args(<<"/", "i">>, <<"/", "o">>, FALSE, mk, 1, TRUE)
       /\ pc = IF mk THEN "start" ELSE "discover"
       /\ gate = IF mk THEN NoGate ELSE [NoGate EXCEPT !.at = "passed"]
  /\ exfile = <<>>
  /\ \E n \in 0..MaxWalkFiles : tree \in WalkOrders(WalkFiles, n)
  /\ Unbound

NextWalk ==
  \/ MakeFilelistOnly
  \/ Discover

SpecWalk == InitWalk /\ [][NextWalk]_vars


\* The calls whose xrdcp ended with a non-zero status.
Failed == {i \in DOMAIN fut : fut[i].rc > 0}
Finished == {i \in DOMAIN fut : fut[i].st = "finished"}
Range(s) == {s[k] : k \in 1..Len(s)}
CopyStarted == \E i \in DOMAIN copies : copies[i] > 0

\* C1: the failure list of the final report holds exactly the sources of
\* the tasks whose copy failed, each once, and by then every task has run to
\* completion, whatever the outcomes, the worker count and the interleaving.
C1_FailureAggregationExact ==
  reported # None =>
    /\ Range(reported.val) = {params[i].src : i \in Failed}
    /\ Len(reported.val) = Cardinality(Failed)
    /\ \A i \in 1..NTasks : fut[i].st = "finished" /\ fut[i].rc \in {0, 1}

C1_Witness ==
  /\ reported # None
  /\ NTasks >= 3 /\ args.num_cores >= 2
  /\ Failed # {} /\ Failed # 1..NTasks

\* C2: at most num_cores copy operations are executing at any time, also
\* when more tasks than workers were submitted.
C2_WorkerBound == Cardinality(Running) <= args.num_cores

C2_Witness ==
  /\ NTasks > args.num_cores
  /\ Cardinality(Running) = args.num_cores
  /\ \E i \in DOMAIN fut : fut[i].st = "pending"

\* C3: the pool exists and a copy has started only after the credential gate
\* returned normally; when the gate raised, the run is over with no pool and
\* no copy.
C3_GateBeforePool ==
  /\ (pool # "none" \/ CopyStarted) => gate.at = "passed"
  /\ gate.at = "failed" => (pc = "fatal" /\ pool = "none" /\ ~CopyStarted)
  /\ pc = "fatal" => ~ENABLED Next

C3_Witness == gate.at = "passed" /\ Running # {}

\* C4: check_grid_proxy makes at most `retry` validity checks, returns as
\* soon as one succeeds and only then, raises only after `retry` failed
\* checks, and never stops anywhere else.
C4_GateOutcome ==
  /\ gate.checks <= gate.retry
  /\ gate.checks <= gate.retry_count /\ gate.retry_count <= gate.retry + 1
  /\ (gate.at = "returned") <=> (gate.returncode = 0)
  /\ gate.at = "raised" => (gate.checks = gate.retry /\ gate.returncode # 0)
  /\ gate.at \in {"loop", "check", "init"} => ENABLED NextGate

C4_Witness ==
  gate.at = "returned" /\ gate.retry >= 2 /\ gate.checks = gate.retry

\* C5: the final report is made only when every submitted call has
\* finished, and once the pool is there the run gets to the final report with
\* all tasks finished, given fair scheduling and copies that end.
C5_ReportAfterAll ==
  /\ [](reported # None => Finished = 1..NTasks)
  /\ (pc = "execute") ~> (pc = "done" /\ reported # None /\ Finished = 1..NTasks)

C5_Witness == reported # None /\ NTasks >= 2 /\ Failed # {}

\* The leading p of s taken off, s itself when it does not start with p.
StripLeading(s, p) == IF StartsWith(s, p) THEN Drop(s, Len(p)) ELSE s

\* C6: the planned sources are the manifest entries, in manifest order,
\* whose path relative to the source root is not an entry of the exclusion
\* list with the destination root taken off its front.
C6_PlanIsManifestMinusExclusions ==
  (pc = "done" /\ ~args.make_filelist) =>
    LET excluded == IF args.exclude
                    THEN {StripLeading(exfile[k], args.outputdir) : k \in 1..Len(exfile)}
                    ELSE {}
        Kept(f) == StripLeading(f, args.inputdir) \notin excluded
        kept == SelectSeq(filelist, Kept)
    IN  [i \in 1..Len(params) |-> params[i].src]
          = [i \in 1..Len(kept) |-> args.src_server \o kept[i]]

\* C7: every planned task goes from src_server + f to dst_server +
\* outputdir + (f with the leading inputdir taken off), f a manifest entry.
C7_TaskAddresses ==
  \A k \in 1..Len(params) :
    \E f \in Range(filelist) :
      /\ params[k].src = args.src_server \o f
      /\ params[k].dst = args.dst_server \o args.outputdir
                           \o StripLeading(f, args.inputdir)

\* C8: copy is invoked at most once on a task, failed or not, and exactly
\* once on every planned task by the time of the final report.
C8_CopyOncePerTask ==
  /\ \A i \in DOMAIN fut :
       copies[i] = IF fut[i].st \in {"new", "pending"} THEN 0 ELSE 1
  /\ reported # None =>
       (DOMAIN copies = 1..NTasks /\ \A i \in 1..NTasks : copies[i] = 1)

C8_Witness == reported # None /\ NTasks >= 2 /\ Failed # {}  /\ Failed # 1..NTasks

\* C9: the bar never counts more than the finished calls, and when it is
\* closed it has counted every task.
C9_ProgressExact ==
  /\ progress.n <= Cardinality(Finished)
  /\ progress.closed => progress.n = NTasks

\* C10: in a dry run the plan is built but no pool is created and no copy
\* starts.
C10_DryRunNoExecutor ==
  args.dryrun =>
    /\ pool = "none" /\ fut = <<>> /\ ~CopyStarted
    /\ pc \notin {"execute", "submit", "addcb", "collect", "shutdown", "report"}
    /\ (pc = "done" /\ ~args.make_filelist) => fi = Len(filelist) + 1

C10_Witness ==
  args.dryrun /\ ~args.make_filelist /\ pc = "done" /\ Len(params) >= 2

\* The sum of the counts of a category-count mapping.
RECURSIVE SumOver(_, _)
SumOver(info, keys) ==
  IF keys = {} THEN 0
  ELSE LET d == CHOOSE x \in keys : TRUE
       IN  info[d] + SumOver(info, keys \ {d})

\* The manifest entries the planning loop has gone through and planned.
Included(f) == BasePath(f) \notin exclude
PlannedSoFar == SelectSeq(SubSeq(filelist, 1, fi - 1), Included)

\* C11: at every step of the planning loop and after it the counts of
\* transfer_info add up to the number of tasks planned so far.
C11_CountsSumToTasks ==
  pc \in {"plan", "execute", "done"} =>
    SumOver(transfer_info, DOMAIN transfer_info) = Len(params)

C11_Witness ==
  /\ pc = "plan"
  /\ Len(params) >= 2
  /\ fi - 1 > Len(params)
  /\ \E d \in DOMAIN transfer_info : transfer_info[d] >= 2

\* The label of a sequence of path segments, read off the wording of the
\* classifier: the first segment from position k on that holds TeV or Tune,
\* or a run identifier, decides.
RECURSIVE ScanLabel(_, _)
ScanLabel(segs, k) ==
  IF k > Len(segs) THEN <<>>
  ELSE IF Contains(segs[k], TEV) \/ Contains(segs[k], TUNE) THEN segs[k]
  ELSE IF RunSearch(segs[k]) # <<>>
       THEN (IF k > 1 THEN segs[k - 1] \o <<"/">> \o RunSearch(segs[k])
             ELSE segs[k])
  ELSE ScanLabel(segs, k + 1)

\* The category counts of a list of labels.
RECURSIVE CountLabels(_)
CountLabels(labels) ==
  IF Len(labels) = 0 THEN <<>>
  ELSE LET rest == CountLabels(SubSeq(labels, 1, Len(labels) - 1))
           d == labels[Len(labels)]
       IN  [x \in DOMAIN rest \cup {d} |->
              (IF x \in DOMAIN rest THEN rest[x] ELSE 0) + (IF x = d THEN 1 ELSE 0)]

\* C15 as claimed: the counts are those of the labels of the planned files'
\* paths relative to the source root.
C15_LabelOfRelativePath ==
  pc \in {"plan", "execute", "done"} =>
    transfer_info =
      CountLabels([k \in 1..Len(PlannedSoFar) |->
        ScanLabel(SplitPath(StripLeading(PlannedSoFar[k], args.inputdir)), 1)])

\* C15 as amended: the counts are those of the labels of the planned files'
\* full source paths, scanned left to right up to the first matching
\* segment, and the planned tasks are those of the files the exclusion test
\* keeps, whatever their labels.
C15_LabelOfSourcePath ==
  pc \in {"plan", "execute", "done"} =>
    /\ transfer_info =
         CountLabels([k \in 1..Len(PlannedSoFar) |->
           ScanLabel(SplitPath(PlannedSoFar[k]), 1)])
    /\ params = [k \in 1..Len(PlannedSoFar) |-> Task(PlannedSoFar[k])]

C15_Witness ==
  /\ pc = "done"
  /\ Cardinality(DOMAIN transfer_info) >= 3
  /\ <<>> \in DOMAIN transfer_info
  /\ \E d \in DOMAIN transfer_info : Contains(d, RUN201A) /\ Contains(d, <<"/">>)
  /\ \E d \in DOMAIN transfer_info : Contains(d, TEV)

\* What the gate has done so far: the validity checks that failed.
FailedChecks == gate.checks - (IF gate.returncode = 0 THEN 1 ELSE 0)

\* C16: in check_grid_proxy every failed validity check is followed by an
\* initialization request, and when the gate decides (returns or raises)
\* every initialization request made has been followed by a re-check.
C16_InitAlwaysRechecked ==
  /\ gate.at \in {"loop", "check", "raised", "returned"} =>
       gate.inits = FailedChecks
  /\ gate.at \in {"raised", "returned"} =>
       (gate.inits = 0 \/ gate.checks > gate.inits)

\* The sources of the tasks among the first n submitted whose copy failed,
\* in submission order.
RECURSIVE FailedSources(_)
FailedSources(n) ==
  IF n = 0 THEN <<>>
  ELSE IF fut[n].rc > 0 THEN Append(FailedSources(n - 1), params[n].src)
  ELSE FailedSources(n - 1)

\* C17: the failure list is a function of the plan and of the tasks'
\* outcomes alone: while it is collected and when it is reported it lists
\* the failed sources in submission order, whatever order the copies ended in.
C17_ReportInSubmissionOrder ==
  /\ pc \in {"collect", "shutdown", "report"} => results = FailedSources(ci - 1)
  /\ reported # None => reported.val = FailedSources(NTasks)

C17_Witness ==
  /\ pc = "collect" /\ results # <<>>
  /\ \E i, j \in DOMAIN fut :
       /\ i < j /\ ci <= i
       /\ fut[i].st # "finished"
       /\ fut[j].st = "finished" /\ fut[j].rc > 0

\* C18: with --make-filelist the run discovers, writes the manifest and
\* ends, with no gate, no plan, no pool and no copy; without it no manifest
\* is ever written.
C18_ManifestOnlyFrame ==
  /\ args.make_filelist =>
       /\ pc \in {"start", "done"}
       /\ gate = NoGate
       /\ filelist = <<>> /\ params = <<>> /\ transfer_info = <<>>
       /\ pool = "none" /\ ~CopyStarted /\ reported = None
       /\ pc = "start" => written = None
       /\ pc = "done" => written = Some(make_filelist(args.inputdir, tree))
  /\ ~args.make_filelist => written = None

C18_Witness ==
  /\ args.make_filelist /\ pc = "done"
  /\ written # None /\ Len(written.val) >= 2

\* The manifest a run has made, and whether it has made one.
Manifest == IF args.make_filelist THEN written.val ELSE filelist
Discovered == IF args.make_filelist THEN written # None ELSE pc = "exclude"

\* C12: the manifest is the same whatever order the walk enumerates the tree
\* in, paths with equal sort keys included.
C12_WalkOrderIrrelevant ==
  Discovered =>
    \A q \in WalkOrders(Range(tree), Len(tree)) :
      make_filelist(args.inputdir, q) = Manifest

\* The path of a file of the tree.
PathOf(e) == PathJoin(DirPath(args.inputdir, e.dirs), e.name)

\* C13: the manifest holds exactly the .root files of at least the minimum
\* size with no directory named failed above them.
C13_ManifestMembership ==
  Discovered =>
    Range(Manifest) =
      { PathOf(e) : e \in { x \in Range(tree) :
          /\ EndsWith(x.name, DOT_ROOT)
          /\ x.size >= MinSize
          /\ \A k \in 1..Len(x.dirs) : x.dirs[k] # FAILED } }

\* C14: natural_sort returns, and what it returns is a permutation of its
\* input, in the order of the keys with no int token met by a str token,
\* and sorting it again changes nothing.
C14_NaturalSortTotal ==
  pc \notin {"start", "discover"} =>
    /\ pc # "fatal"
    /\ Discovered =>
         /\ Len(Manifest) = Len(WalkKept(args.inputdir, tree))
         /\ Range(Manifest) = Range(WalkKept(args.inputdir, tree))
         /\ \A i, j \in 1..Len(Manifest) :
              i < j => KeyCmp(alphanum_key(Manifest[j]), alphanum_key(Manifest[i])) = "ge"
         /\ ~natural_sort_raises(Manifest)
         /\ natural_sort(Manifest) = Manifest

====
